---- MODULE Spec2Model ----
(***************************************************************************)
(* A model of rim (src/src/main.rs): the text buffer (a Rope of            *)
(* characters), the cursor and viewport, the four input modes and the      *)
(* colon commands.  One step of the model is one key event handled by      *)
(* Editor::process_keypress inside the loop of Editor::run.                *)
(*                                                                         *)
(* Text is a sequence of one-character strings.  The rope holds the line   *)
(* breaks as characters (LF), as ropey does: a line of the rope includes   *)
(* the line break that ends it, and the rope always has one line more      *)
(* than it has line breaks.  Character and line indices are 0-based as in  *)
(* the source; Sequences are 1-based, so index i is element i + 1.         *)
(***************************************************************************)
EXTENDS Integers, Sequences, FiniteSets, TLC

VARIABLES cx, cy, screen_rows, buffer, row_offset, status_msg, mode, ret,
          command_to_execute

vars == <<cx, cy, screen_rows, buffer, row_offset, status_msg, mode, ret,
          command_to_execute>>

----------------------------------------------------------------------------
(* Bounds of the model. *)

\* The rope never grows beyond MaxChars characters (typing and Enter stop).
MaxChars == 3

\* The terminal heights tried: screen_rows ranges over 1..MaxScreenRows.
MaxScreenRows == 2

----------------------------------------------------------------------------
(* Characters and strings. *)

LF == "\n"

\* The characters typed in Insert mode and found in loaded files.
TextChars == {"a", "b"}

RopeChars == TextChars \cup {LF}

SeqsUpTo(S, n) == UNION {[1..k -> S] : k \in 0..n}

\* Every text of at most MaxChars characters.
Ropes == SeqsUpTo(RopeChars, MaxChars)

\* The file name given on the command line and the one given to :w / :wq.
ArgName == <<"f">>

\* The command lines typed in Command mode, and every prefix of them.
Commands ==
  { <<":">>, <<":", "q">>, <<":", "q", "!">>, <<":", "w">>, <<":", "w", "q">>,
    <<":", "w", " ", "g">>, <<":", "w", "q", " ", "g">>, <<":", "x">> }

CommandPrefixes == UNION {{SubSeq(c, 1, k) : k \in 1..Len(c)} : c \in Commands}

CmdChars == {"q", "w", "!", " ", "g", "x"}

Min(a, b) == IF a < b THEN a ELSE b

\* usize::saturating_sub
saturating_sub(a, b) == IF a > b THEN a - b ELSE 0

\* Option<String>: None is the empty set, Some(s) the singleton {s}.
None == {}

Some(s) == {s}

unwrap(o) == CHOOSE s \in o : TRUE

----------------------------------------------------------------------------
(* ropey::Rope, as far as the editor uses it. *)

\* The 1-based positions of the line breaks of rope r.
LineBreaks(r) == {i \in 1..Len(r) : r[i] = LF}

len_chars(r) == Len(r)

\* Rope::len_lines: the number of line breaks plus one.
len_lines(r) == Cardinality(LineBreaks(r)) + 1

\* Rope::line_to_char: the 0-based index of the first character of line
\* `line`; line = len_lines(r) is allowed and gives len_chars(r).
line_to_char(r, line) ==
  IF line = 0 THEN 0
  ELSE IF line >= len_lines(r) THEN Len(r)
  ELSE CHOOSE i \in LineBreaks(r) :
         Cardinality({j \in LineBreaks(r) : j <= i}) = line

\* Rope::line(line).len_chars(): the length of the line, its line break
\* included.
line_len_chars(r, line) == line_to_char(r, line + 1) - line_to_char(r, line)

\* Rope::insert_char / Rope::insert of one character at 0-based index idx.
rope_insert(r, idx, c) ==
  SubSeq(r, 1, idx) \o <<c>> \o SubSeq(r, idx + 1, Len(r))

\* Rope::remove(start..end), 0-based, end exclusive.
rope_remove(r, start, end) == SubSeq(r, 1, start) \o SubSeq(r, end + 1, Len(r))

----------------------------------------------------------------------------
(* struct Buffer *)

Buffer_new == [rope |-> <<>>, filename |-> None, dirty |-> FALSE]

\* Buffer::from_file: the file's text, or the empty rope when the file does
\* not exist; the name is bound either way.
Buffer_from_file(name, text) ==
  [rope |-> text, filename |-> Some(name), dirty |-> FALSE]

\* What the file store answers to a save: success, or an error (of
\* File::create or of Rope::write_to, which Buffer::save both hands on).
IoOutcomes == {"ok", "err"}

\* Buffer::save: the Result<bool> as "true", "false" or "err".
Buffer_save_result(b, io) ==
  IF b.filename # None THEN (IF io = "ok" THEN "true" ELSE "err") ELSE "false"

\* Buffer::save: the buffer afterwards.
Buffer_save(b, io) ==
  IF b.filename # None /\ io = "ok" THEN [b EXCEPT !.dirty = FALSE] ELSE b

Buffer_len_lines(b) == len_lines(b.rope)

\* self.buffer.line(index).len_chars()
Buffer_line_len(b, index) == line_len_chars(b.rope, index)

Buffer_insert_char(b, line, col, c) ==
  LET line_char_idx == line_to_char(b.rope, line)
  IN  [b EXCEPT !.rope = rope_insert(b.rope, line_char_idx + col, c),
                !.dirty = TRUE]

\* Buffer::delete_char without the assignment to dirty.
Buffer_delete_char_NotDirty(b, line, col) ==
  IF col > 0
  THEN LET line_char_idx == line_to_char(b.rope, line)
       IN  [b EXCEPT !.rope = rope_remove(b.rope, line_char_idx + col - 1,
                                          line_char_idx + col)]
  ELSE b

Buffer_delete_char(b, line, col) ==
  IF col > 0
  THEN LET line_char_idx == line_to_char(b.rope, line)
       IN  [b EXCEPT !.rope = rope_remove(b.rope, line_char_idx + col - 1,
                                          line_char_idx + col),
                     !.dirty = TRUE]
  ELSE b

\* Buffer::insert_new_line with the line break put at the start of the line,
\* the column forgotten.
Buffer_insert_new_line_AtLineStart(b, line, col) ==
  LET char_idx == line_to_char(b.rope, line)
  IN  [b EXCEPT !.rope = rope_insert(b.rope, char_idx, LF), !.dirty = TRUE]

Buffer_insert_new_line(b, line, col) ==
  LET char_idx == line_to_char(b.rope, line) + col
  IN  [b EXCEPT !.rope = rope_insert(b.rope, char_idx, LF), !.dirty = TRUE]

\* Buffer::join_with_previous_line: the buffer afterwards.
Buffer_join_with_previous_line(b, line) ==
  IF line = 0 THEN b
  ELSE LET prev_line_end_char == line_to_char(b.rope, line)
       IN  [b EXCEPT !.rope = rope_remove(b.rope, prev_line_end_char - 1,
                                          prev_line_end_char),
                     !.dirty = TRUE]

\* Buffer::join_with_previous_line: the value returned.
Buffer_join_result(b, line) ==
  IF line = 0 THEN 0 ELSE Buffer_line_len(b, line - 1)

\* The calls above that panic in ropey (an index out of range) or on an
\* unsigned subtraction below zero.
Buffer_insert_panics(b, line, col) ==
  line > len_lines(b.rope) \/ line_to_char(b.rope, line) + col > Len(b.rope)

Buffer_delete_char_panics(b, line, col) ==
  col > 0 /\ (line > len_lines(b.rope)
              \/ line_to_char(b.rope, line) + col > Len(b.rope))

Buffer_join_panics(b, line) ==
  line > 0 /\ (line - 1 >= len_lines(b.rope) \/ line_to_char(b.rope, line) < 1)

----------------------------------------------------------------------------
(* enum Mode *)

Normal == [tag |-> "Normal"]

Insert == [tag |-> "Insert"]

Visual(start) == [tag |-> "Visual", selection_start |-> start]

Command(text) == [tag |-> "Command", command_buffer |-> text]

----------------------------------------------------------------------------
(* Status messages: a format string followed by the characters it embeds. *)

NoMsg == <<>>

MsgHelp == <<"HELP: :q = quit">>

MsgNoName == <<"[No Name]">>

MsgLoaded(name) == <<"Loaded file: ">> \o name

MsgInsert == <<"-- INSERT --">>

MsgVisual == <<"-- VISUAL --">>

MsgNoWrite == <<"No write since last change (use :q! to override)">>

MsgSaved(name) == <<"Saved file: ">> \o name

MsgNoFilename == <<"No filename specified. Use :w <filename>">>

MsgUnknown(command) == <<"Unknown command: ">> \o command

----------------------------------------------------------------------------
(* struct Editor: the operations, as functions of the editor record e. *)

\* The editor as a record; ret is the value the handler has returned so far.
Ed ==
  [cx |-> cx, cy |-> cy, screen_rows |-> screen_rows, buffer |-> buffer,
   row_offset |-> row_offset, status_msg |-> status_msg, mode |-> mode,
   ret |-> "true", command_to_execute |-> <<>>]

Panic(e) == [e EXCEPT !.ret = "panic"]

file_row(e) == e.cy + e.row_offset

\* The guarded read every handler makes: the current line's length, or 0
\* when the cursor's row is not a line of the buffer.
current_line_len(e) ==
  IF file_row(e) < Buffer_len_lines(e.buffer)
  THEN Buffer_line_len(e.buffer, file_row(e))
  ELSE 0

\* scroll_check keeping a full screen of lines below the scroll offset.
scroll_check_FullScreen(e) ==
  LET n == Buffer_len_lines(e.buffer)
      cy1 == IF e.cy + e.row_offset >= n
             THEN (IF n > 0
                   THEN saturating_sub(saturating_sub(n, 1), e.row_offset)
                   ELSE 0)
             ELSE e.cy
  IN  [e EXCEPT !.cy = cy1,
                !.row_offset = Min(e.row_offset, saturating_sub(n, e.screen_rows))]

scroll_check(e) ==
  LET n == Buffer_len_lines(e.buffer)
      cy1 == IF e.cy + e.row_offset >= n
             THEN (IF n > 0
                   THEN saturating_sub(saturating_sub(n, 1), e.row_offset)
                   ELSE 0)
             ELSE e.cy
  IN  [e EXCEPT !.cy = cy1,
                !.row_offset = Min(e.row_offset, saturating_sub(n, 1))]

clamp_cursor_to_line(e) ==
  LET len == current_line_len(e)
      max_cx == IF len > 0 THEN len - 1 ELSE 0
      cx1 == CASE e.mode.tag \in {"Normal", "Visual"} ->
                    IF e.cx > max_cx THEN max_cx ELSE e.cx
               [] e.mode.tag = "Insert" ->
                    IF e.cx > len THEN len ELSE e.cx
               [] OTHER -> e.cx
  IN  [e EXCEPT !.cx = IF len = 0 /\ cx1 > 0 THEN 0 ELSE cx1]

\* The arms h / Left, l / Right, k / Up and j / Down, which
\* process_normal_keypress and process_visual_keypress both have.
move_left(e) == IF e.cx > 0 THEN [e EXCEPT !.cx = e.cx - 1] ELSE e

move_right(e) ==
  LET len == current_line_len(e)
      max_cx == IF len > 0 THEN len - 1 ELSE 0
  IN  IF e.cx < max_cx THEN [e EXCEPT !.cx = e.cx + 1] ELSE e

move_up(e) ==
  IF e.cy > 0 THEN [e EXCEPT !.cy = e.cy - 1]
  ELSE IF e.row_offset > 0 THEN [e EXCEPT !.row_offset = e.row_offset - 1]
  ELSE e

\* The arm j / Down moving the cursor down the screen without ever scrolling.
move_down_NoScroll(e) ==
  LET file_last_row == saturating_sub(Buffer_len_lines(e.buffer), 1)
  IN  IF e.cy + e.row_offset < file_last_row
      THEN [e EXCEPT !.cy = e.cy + 1]
      ELSE e

move_down(e) ==
  LET file_last_row == saturating_sub(Buffer_len_lines(e.buffer), 1)
  IN  IF e.cy + e.row_offset < file_last_row
      THEN IF e.screen_rows < 1 THEN Panic(e)
           ELSE IF e.cy < e.screen_rows - 1
                THEN [e EXCEPT !.cy = e.cy + 1]
                ELSE [e EXCEPT !.row_offset = e.row_offset + 1]
      ELSE e

\* Ctrl-D
half_page_down(e) ==
  LET new_offset == Min(e.row_offset + e.screen_rows \div 2,
                        saturating_sub(Buffer_len_lines(e.buffer), 1))
  IN  IF new_offset < e.row_offset THEN Panic(e)
      ELSE LET dy == new_offset - e.row_offset
           IN  scroll_check([e EXCEPT !.row_offset = new_offset,
                                      !.cy = saturating_sub(e.cy, dy)])

\* Ctrl-U shifting cy by the half page asked for, not by the change of the
\* scroll offset.
half_page_up_Requested(e) ==
  LET new_offset == saturating_sub(e.row_offset, e.screen_rows \div 2)
  IN  IF e.screen_rows < 1 THEN Panic(e)
      ELSE scroll_check([e EXCEPT !.row_offset = new_offset,
                                  !.cy = Min(e.cy + e.screen_rows \div 2,
                                             e.screen_rows - 1)])

\* Ctrl-U
half_page_up(e) ==
  LET new_offset == saturating_sub(e.row_offset, e.screen_rows \div 2)
      dy == e.row_offset - new_offset
  IN  IF e.screen_rows < 1 THEN Panic(e)
      ELSE scroll_check([e EXCEPT !.row_offset = new_offset,
                                  !.cy = Min(e.cy + dy, e.screen_rows - 1)])

\* The tail of process_normal_keypress and process_visual_keypress.
clamp_and_scroll(e) ==
  IF e.ret = "panic" THEN e ELSE scroll_check(clamp_cursor_to_line(e))

\* The arms i, v and : of process_normal_keypress.
enter_insert(e) == [e EXCEPT !.mode = Insert, !.status_msg = MsgInsert]

\* The arm v with the screen row as the anchor's row, the scroll offset
\* forgotten.
enter_visual_ScreenRow(e) ==
  [e EXCEPT !.mode = Visual(<<e.cx, e.cy>>), !.status_msg = MsgVisual]

enter_visual(e) ==
  [e EXCEPT !.mode = Visual(<<e.cx, e.cy + e.row_offset>>),
            !.status_msg = MsgVisual]

enter_command(e) == [e EXCEPT !.mode = Command(<<":">>), !.status_msg = NoMsg]

process_normal_keypress(e, event) ==
  LET colon == event.code = "Char" /\ event.ch = ":"
      e0 == IF ~colon THEN [e EXCEPT !.status_msg = NoMsg] ELSE e
      e1 == CASE (event.code = "Char" /\ event.ch = "h") \/ event.code = "Left" ->
                   move_left(e0)
              [] (event.code = "Char" /\ event.ch = "l") \/ event.code = "Right" ->
                   move_right(e0)
              [] (event.code = "Char" /\ event.ch = "k") \/ event.code = "Up" ->
                   move_up(e0)
              [] (event.code = "Char" /\ event.ch = "j") \/ event.code = "Down" ->
                   move_down(e0)
              [] event.code = "Char" /\ event.ch = "d"
                   /\ event.modifiers = "CONTROL" ->
                   half_page_down(e0)
              [] event.code = "Char" /\ event.ch = "u"
                   /\ event.modifiers = "CONTROL" ->
                   half_page_up(e0)
              [] event.code = "Char" /\ event.ch = "i" -> enter_insert(e0)
              [] event.code = "Char" /\ event.ch = "v" -> enter_visual(e0)
              [] colon -> enter_command(e0)
              [] OTHER -> e0
  IN  clamp_and_scroll(e1)

\* Editor::insert_char without the clamp of cx to the line's length.
Editor_insert_char_NoClamp(e, c) ==
  IF Buffer_insert_panics(e.buffer, file_row(e), e.cx) THEN Panic(e)
  ELSE [e EXCEPT !.buffer = Buffer_insert_char(e.buffer, file_row(e), e.cx, c),
                 !.cx = e.cx + 1]

Editor_insert_char(e, c) ==
  LET line_len == current_line_len(e)
      cx1 == IF e.cx > line_len THEN line_len ELSE e.cx
  IN  IF Buffer_insert_panics(e.buffer, file_row(e), cx1) THEN Panic(e)
      ELSE [e EXCEPT !.buffer = Buffer_insert_char(e.buffer, file_row(e), cx1, c),
                     !.cx = cx1 + 1]

\* Editor::insert_new_line without the test for the bottom row of the
\* screen: the cursor always moves one screen row down.
Editor_insert_new_line_NoScroll(e) ==
  LET line_len == current_line_len(e)
      cx1 == IF e.cx > line_len THEN line_len ELSE e.cx
  IN  [e EXCEPT !.buffer = Buffer_insert_new_line(e.buffer, file_row(e), cx1),
                !.cx = 0,
                !.cy = e.cy + 1]

Editor_insert_new_line(e) ==
  LET line_len == current_line_len(e)
      cx1 == IF e.cx > line_len THEN line_len ELSE e.cx
  IN  IF Buffer_insert_panics(e.buffer, file_row(e), cx1) \/ e.screen_rows < 1
      THEN Panic(e)
      ELSE LET e1 == [e EXCEPT
                        !.buffer = Buffer_insert_new_line(e.buffer, file_row(e), cx1),
                        !.cx = 0]
           IN  IF e.cy < e.screen_rows - 1
               THEN [e1 EXCEPT !.cy = e.cy + 1]
               ELSE [e1 EXCEPT !.row_offset = e.row_offset + 1]

\* Editor::delete_char joining with the previous line whenever cx = 0, the
\* first line included.
Editor_delete_char_JoinAlways(e) ==
  IF e.cx = 0
  THEN IF Buffer_join_panics(e.buffer, file_row(e))
          \/ (e.cy = 0 /\ e.row_offset = 0)
       THEN Panic(e)
       ELSE LET prev_line_len == Buffer_join_result(e.buffer, file_row(e))
                e1 == [e EXCEPT
                         !.buffer = Buffer_join_with_previous_line(
                                      e.buffer, file_row(e)),
                         !.cx = prev_line_len]
            IN  IF e.cy > 0
                THEN [e1 EXCEPT !.cy = e.cy - 1]
                ELSE [e1 EXCEPT !.row_offset = e.row_offset - 1]
  ELSE LET line_len == current_line_len(e)
           cx1 == IF e.cx > line_len THEN line_len ELSE e.cx
       IN  IF cx1 > 0
           THEN IF Buffer_delete_char_panics(e.buffer, file_row(e), cx1)
                THEN Panic(e)
                ELSE [e EXCEPT
                        !.buffer = Buffer_delete_char(e.buffer, file_row(e), cx1),
                        !.cx = cx1 - 1]
           ELSE [e EXCEPT !.cx = cx1]

Editor_delete_char(e) ==
  IF e.cx = 0
  THEN IF file_row(e) > 0
       THEN IF Buffer_join_panics(e.buffer, file_row(e))
               \/ (e.cy = 0 /\ e.row_offset = 0)
            THEN Panic(e)
            ELSE LET prev_line_len == Buffer_join_result(e.buffer, file_row(e))
                     e1 == [e EXCEPT
                              !.buffer = Buffer_join_with_previous_line(
                                           e.buffer, file_row(e)),
                              !.cx = prev_line_len]
                 IN  IF e.cy > 0
                     THEN [e1 EXCEPT !.cy = e.cy - 1]
                     ELSE [e1 EXCEPT !.row_offset = e.row_offset - 1]
       ELSE e
  ELSE LET line_len == current_line_len(e)
           cx1 == IF e.cx > line_len THEN line_len ELSE e.cx
       IN  IF cx1 > 0
           THEN IF Buffer_delete_char_panics(e.buffer, file_row(e), cx1)
                THEN Panic(e)
                ELSE [e EXCEPT
                        !.buffer = Buffer_delete_char(e.buffer, file_row(e), cx1),
                        !.cx = cx1 - 1]
           ELSE [e EXCEPT !.cx = cx1]

process_insert_keypress(e, event) ==
  LET e0 == [e EXCEPT !.status_msg = NoMsg]
  IN  CASE event.code = "Esc" ->
             clamp_cursor_to_line([e0 EXCEPT !.mode = Normal, !.status_msg = NoMsg])
        [] event.code = "Char" -> Editor_insert_char(e0, event.ch)
        [] event.code = "Enter" -> Editor_insert_new_line(e0)
        [] event.code = "Backspace" -> Editor_delete_char(e0)
        [] OTHER -> e0

process_visual_keypress(e, event) ==
  LET e0 == [e EXCEPT !.status_msg = NoMsg]
      e1 == CASE event.code = "Esc" ->
                   [e0 EXCEPT !.mode = Normal, !.status_msg = NoMsg]
              [] (event.code = "Char" /\ event.ch = "h") \/ event.code = "Left" ->
                   move_left(e0)
              [] (event.code = "Char" /\ event.ch = "l") \/ event.code = "Right" ->
                   move_right(e0)
              [] (event.code = "Char" /\ event.ch = "k") \/ event.code = "Up" ->
                   move_up(e0)
              [] (event.code = "Char" /\ event.ch = "j") \/ event.code = "Down" ->
                   move_down(e0)
              [] OTHER -> e0
  IN  clamp_and_scroll(e1)

\* get_selection_range comparing the rows only: two points of one row are
\* never swapped.
get_selection_range_RowsOnly(e) ==
  IF e.mode.tag = "Visual"
  THEN LET start_pos == e.mode.selection_start
           end_pos == <<e.cx, e.cy + e.row_offset>>
       IN  IF end_pos[2] < start_pos[2]
           THEN Some(<<end_pos, start_pos>>)
           ELSE Some(<<start_pos, end_pos>>)
  ELSE None

\* The points are (x, y_file) pairs.
get_selection_range(e) ==
  IF e.mode.tag = "Visual"
  THEN LET start_pos == e.mode.selection_start
           end_pos == <<e.cx, e.cy + e.row_offset>>
       IN  IF \/ end_pos[2] < start_pos[2]
              \/ (end_pos[2] = start_pos[2] /\ end_pos[1] < start_pos[1])
           THEN Some(<<end_pos, start_pos>>)
           ELSE Some(<<start_pos, end_pos>>)
  ELSE None

\* str::split_whitespace over a command line; the blank is the only
\* whitespace typed.
RECURSIVE split_from(_, _, _)
split_from(s, i, word) ==
  IF i > Len(s) THEN (IF word = <<>> THEN <<>> ELSE <<word>>)
  ELSE IF s[i] = " "
       THEN (IF word = <<>> THEN <<>> ELSE <<word>>) \o split_from(s, i + 1, <<>>)
       ELSE split_from(s, i + 1, Append(word, s[i]))

split_whitespace(s) == split_from(s, 1, <<>>)

\* The arm ":q" without the test of the dirty flag: it always quits.
exec_quit_Unchecked(e) == [e EXCEPT !.ret = "false"]

\* The arm ":q" of execute_command.
exec_quit(e) ==
  IF e.buffer.dirty
  THEN [e EXCEPT !.status_msg = MsgNoWrite, !.ret = "true"]
  ELSE [e EXCEPT !.ret = "false"]

\* The arm ":q!" of execute_command.
exec_force_quit(e) == [e EXCEPT !.ret = "false"]

\* if parts.len() > 1 { self.buffer.filename = Some(parts[1].to_string()) }
rebind(b, parts) ==
  IF Len(parts) > 1 THEN [b EXCEPT !.filename = Some(parts[2])] ELSE b

\* The arm ":w" of execute_command; `?` hands an error of the save on.
exec_write(e, parts, io) ==
  LET named == rebind(e.buffer, parts)
      saved == Buffer_save(named, io)
      save_result == Buffer_save_result(named, io)
  IN  CASE save_result = "err" -> [e EXCEPT !.buffer = saved, !.ret = "err"]
        [] save_result = "true" ->
             [e EXCEPT !.buffer = saved,
                       !.status_msg = MsgSaved(unwrap(saved.filename)),
                       !.ret = "true"]
        [] OTHER ->
             [e EXCEPT !.buffer = saved, !.status_msg = MsgNoFilename,
                       !.ret = "true"]

\* The arm ":wq" quitting whatever the save has answered, unsaved changes
\* or not.
exec_write_quit_Always(e, parts, io) ==
  LET named == rebind(e.buffer, parts)
      saved == Buffer_save(named, io)
      save_success == Buffer_save_result(named, io)
  IN  CASE save_success = "err" -> [e EXCEPT !.buffer = saved, !.ret = "err"]
        [] save_success = "true" ->
             [e EXCEPT !.buffer = saved,
                       !.status_msg = MsgSaved(unwrap(saved.filename)),
                       !.ret = "false"]
        [] OTHER -> [e EXCEPT !.buffer = saved, !.ret = "false"]

\* The arm ":wq" of execute_command.
exec_write_quit(e, parts, io) ==
  LET named == rebind(e.buffer, parts)
      saved == Buffer_save(named, io)
      save_success == Buffer_save_result(named, io)
  IN  CASE save_success = "err" -> [e EXCEPT !.buffer = saved, !.ret = "err"]
        [] save_success = "true" ->
             [e EXCEPT !.buffer = saved,
                       !.status_msg = MsgSaved(unwrap(saved.filename)),
                       !.ret = "false"]
        [] save_success = "false" /\ ~saved.dirty ->
             [e EXCEPT !.buffer = saved, !.ret = "false"]
        [] OTHER ->
             [e EXCEPT !.buffer = saved, !.status_msg = MsgNoFilename,
                       !.ret = "true"]

\* The default arm without its report: it returns Ok(true) only, as the
\* arm for an empty command does.
exec_unknown_Silent(e, command) == [e EXCEPT !.ret = "true"]

\* The default arm of execute_command.
exec_unknown(e, command) ==
  [e EXCEPT !.status_msg = MsgUnknown(command), !.ret = "true"]

execute_command(e, command, io) ==
  LET parts == split_whitespace(command)
  IN  IF parts = <<>> THEN [e EXCEPT !.ret = "true"]
      ELSE CASE parts[1] = <<":", "q">> -> exec_quit(e)
             [] parts[1] = <<":", "q", "!">> -> exec_force_quit(e)
             [] parts[1] = <<":", "w">> -> exec_write(e, parts, io)
             [] parts[1] = <<":", "w", "q">> -> exec_write_quit(e, parts, io)
             [] OTHER -> exec_unknown(e, command)

process_command_keypress(e, event, io) ==
  IF e.mode.tag # "Command" THEN e
  ELSE LET text == e.mode.command_buffer
       IN  CASE event.code = "Enter" ->
                  execute_command([e EXCEPT !.mode = Normal,
                                            !.command_to_execute = text],
                                  text, io)
             [] event.code = "Esc" ->
                  [e EXCEPT !.mode = Normal, !.status_msg = NoMsg]
             [] event.code = "Char" ->
                  [e EXCEPT !.mode = Command(Append(text, event.ch))]
             [] event.code = "Backspace" ->
                  IF Len(text) > 1
                  THEN [e EXCEPT !.mode = Command(SubSeq(text, 1, Len(text) - 1))]
                  ELSE [e EXCEPT !.mode = Normal, !.status_msg = NoMsg]
             [] OTHER -> e

----------------------------------------------------------------------------
(* Key events. *)

Key(code) == [code |-> code, ch |-> "", modifiers |-> "NONE"]

Char(c, m) == [code |-> "Char", ch |-> c, modifiers |-> m]

OtherCodes == {"Left", "Right", "Up", "Down", "Esc", "Enter", "Backspace", "Tab"}

\* The keys pressed in Normal and Visual mode.
NormalChars == {"h", "j", "k", "l", "d", "u", "i", "v", ":", "x"}

NormalEvents ==
  {Char(c, "NONE") : c \in NormalChars}
    \cup {Char(c, "CONTROL") : c \in {"d", "u"}}
    \cup {Key(k) : k \in OtherCodes}

\* The keys pressed in Insert mode.
InsertEvents == {Char(c, "NONE") : c \in TextChars} \cup {Key(k) : k \in OtherCodes}

\* The keys pressed in Command mode.
CommandEvents == {Char(c, "NONE") : c \in CmdChars} \cup {Key(k) : k \in OtherCodes}

----------------------------------------------------------------------------
(* The state machine. *)

\* Editor::new: no argument, or a file name whose file holds `text` (the
\* empty text too when the file does not exist).
Editor_new(rows, b) ==
  [cx |-> 0, cy |-> 0, screen_rows |-> rows, buffer |-> b, row_offset |-> 0,
   status_msg |-> IF b.filename # None THEN MsgLoaded(unwrap(b.filename))
                  ELSE IF len_chars(b.rope) > 0 THEN MsgNoName
                  ELSE MsgHelp,
   mode |-> Normal, ret |-> "none", command_to_execute |-> <<>>]

Is(e) ==
  /\ cx = e.cx
  /\ cy = e.cy
  /\ screen_rows = e.screen_rows
  /\ buffer = e.buffer
  /\ row_offset = e.row_offset
  /\ status_msg = e.status_msg
  /\ mode = e.mode
  /\ ret = e.ret
  /\ command_to_execute = e.command_to_execute

Becomes(e) ==
  /\ cx' = e.cx
  /\ cy' = e.cy
  /\ screen_rows' = e.screen_rows
  /\ buffer' = e.buffer
  /\ row_offset' = e.row_offset
  /\ status_msg' = e.status_msg
  /\ mode' = e.mode
  /\ ret' = e.ret
  /\ command_to_execute' = e.command_to_execute

Init ==
  \E rows \in 1..MaxScreenRows :
    \/ Is(Editor_new(rows, Buffer_new))
    \/ \E text \in Ropes : Is(Editor_new(rows, Buffer_from_file(ArgName, text)))

\* Editor::run: the loop reads the next key while the handlers return
\* Ok(true).
Running == ret \in {"none", "true"}

NormalKeypress ==
  /\ Running
  /\ mode.tag = "Normal"
  /\ \E event \in NormalEvents : Becomes(process_normal_keypress(Ed, event))

InsertKeypress ==
  /\ Running
  /\ mode.tag = "Insert"
  /\ \E event \in InsertEvents :
       /\ event.code \in {"Char", "Enter"} => Len(buffer.rope) < MaxChars
       /\ Becomes(process_insert_keypress(Ed, event))

VisualKeypress ==
  /\ Running
  /\ mode.tag = "Visual"
  /\ \E event \in NormalEvents : Becomes(process_visual_keypress(Ed, event))

CommandKeypress ==
  /\ Running
  /\ mode.tag = "Command"
  /\ \E event \in CommandEvents, io \in IoOutcomes :
       /\ event.code = "Char" =>
            Append(mode.command_buffer, event.ch) \in CommandPrefixes
       /\ Becomes(process_command_keypress(Ed, event, io))

Next ==
  \/ NormalKeypress
  \/ InsertKeypress
  \/ VisualKeypress
  \/ CommandKeypress

Spec == Init /\ [][Next]_vars

----------------------------------------------------------------------------
(* The properties checked. *)

lineCount == len_lines(buffer.rope)

\* The number of characters of the text of line `line` of rope r, its line
\* break not counted.
lineLength(r, line) ==
  LET first == line_to_char(r, line)
      end == line_to_char(r, line + 1)
  IN  IF end > first /\ r[end] = LF THEN end - first - 1 ELSE end - first

Max(a, b) == IF a > b THEN a ELSE b

\* C1: in every state, whatever the mode and the keys pressed so far, the
\* cursor's screen row is on the screen (0 <= cy < screen_rows), the scroll
\* offset is a line of the document (row_offset <= lineCount - 1) and so is
\* the cursor's absolute row (cy + row_offset <= lineCount - 1).
C1_ViewportInvariant ==
  /\ 0 <= cy
  /\ cy < screen_rows
  /\ row_offset <= lineCount - 1
  /\ cy + row_offset <= lineCount - 1

\* C1 witness: after a key in Insert mode the cursor is on the bottom row of
\* a scrolled screen, on the last line of a document of several lines.
C1_Witness ==
  /\ ret = "true"
  /\ mode.tag = "Insert"
  /\ row_offset > 0
  /\ cy = screen_rows - 1
  /\ cy + row_offset = lineCount - 1
  /\ screen_rows > 1

\* C2: in Normal and Visual mode the cursor is on a character of its line:
\* cx <= max(lineLength - 1, 0), the line break not counted in lineLength.
C2_CursorOnCharacter ==
  mode.tag \in {"Normal", "Visual"} =>
    cx <= Max(lineLength(buffer.rope, cy + row_offset) - 1, 0)

\* C3: in Insert mode the cursor is at most one position past the last
\* character of its line: cx <= lineLength.
C3_InsertCursorWithinLine ==
  mode.tag = "Insert" => cx <= lineLength(buffer.rope, cy + row_offset)

\* C4 is not stated as a formula: see len_lines, which is at least 1 for
\* every rope.

IsChar(event, c) == event.code = "Char" /\ event.ch = c

\* The mode each key leads to, by the mode it is pressed in.
C5_ModeByKey ==
  /\ mode.tag = "Normal" =>
       \A event \in NormalEvents :
         process_normal_keypress(Ed, event).mode =
           CASE IsChar(event, "i") -> Insert
             [] IsChar(event, "v") -> Visual(<<cx, cy + row_offset>>)
             [] IsChar(event, ":") -> Command(<<":">>)
             [] OTHER -> mode
  /\ mode.tag = "Insert" =>
       \A event \in InsertEvents :
         process_insert_keypress(Ed, event).mode =
           IF event.code = "Esc" THEN Normal ELSE mode
  /\ mode.tag = "Visual" =>
       \A event \in NormalEvents :
         process_visual_keypress(Ed, event).mode =
           IF event.code = "Esc" THEN Normal ELSE mode
  /\ mode.tag = "Command" =>
       \A event \in CommandEvents, io \in IoOutcomes :
         process_command_keypress(Ed, event, io).mode.tag =
           IF \/ event.code \in {"Enter", "Esc"}
              \/ event.code = "Backspace" /\ mode.command_buffer = <<":">>
           THEN "Normal"
           ELSE "Command"

\* The mode changes of one step.
C5_ModeEdge ==
  \/ mode'.tag = mode.tag
  \/ /\ mode.tag = "Normal"
     /\ \/ mode' = Insert
        \/ mode' = Visual(<<cx, cy + row_offset>>)
             /\ mode' = Visual(<<cx', cy' + row_offset'>>)
        \/ mode' = Command(<<":">>)
  \/ mode.tag \in {"Insert", "Visual", "Command"} /\ mode' = Normal

\* C5: the mode starts as Normal and changes only Normal -> Insert (i),
\* Normal -> Visual (v, anchor = the cursor's column and absolute row),
\* Normal -> Command (:, pending text ":"), Insert -> Normal (Escape),
\* Visual -> Normal (Escape) and Command -> Normal (Enter, Escape, or
\* Backspace on the lone colon); every other key leaves the mode as it is.
C5_ModeTransitions ==
  /\ mode = Normal
  /\ []C5_ModeByKey
  /\ [][C5_ModeEdge]_vars

\* C5 witness: Visual mode entered on a line below the first screen, the
\* anchor being the cursor's position, in a scrolled document.
C5_Witness ==
  /\ mode.tag = "Visual"
  /\ status_msg = MsgVisual
  /\ row_offset > 0
  /\ mode.selection_start = <<cx, cy + row_offset>>

\* The command executed by the step that led to this state, in tokens;
\* <<>> when the step executed none.
executed == split_whitespace(command_to_execute)

Executed(token) == executed # <<>> /\ executed[1] = token

\* C6: a step that executes :q returns continue=false exactly when the
\* buffer is not dirty; on a dirty buffer it returns continue=true with the
\* unsaved-changes message, the buffer and its dirty flag unchanged.  A step
\* that executes :q! returns continue=false, dirty or not.
C6_QuitStep ==
  /\ Executed(<<":", "q">>)' =>
       /\ ret' = "false" <=> ~buffer.dirty
       /\ buffer.dirty => ret' = "true" /\ status_msg' = MsgNoWrite
       /\ buffer' = buffer
  /\ Executed(<<":", "q", "!">>)' => ret' = "false"

C6_Quit == [][C6_QuitStep]_vars

\* C6 witness: :q was executed on a dirty buffer and refused.
C6_Witness ==
  /\ Executed(<<":", "q">>)
  /\ buffer.dirty
  /\ ret = "true"
  /\ status_msg = MsgNoWrite

\* C7: a step that executes :w [name] returns continue=true; a name given
\* becomes the filename; the save succeeds (dirty cleared, the saved file
\* reported) exactly when a filename is then bound, and otherwise the
\* missing filename is reported and the buffer is unchanged.
C7_WriteStep ==
  Executed(<<":", "w">>)' =>
    /\ ret' = "true"
    /\ buffer'.filename =
         IF Len(executed') > 1 THEN Some(executed'[2]) ELSE buffer.filename
    /\ buffer'.rope = buffer.rope
    /\ IF buffer'.filename # None
       THEN ~buffer'.dirty /\ status_msg' = MsgSaved(unwrap(buffer'.filename))
       ELSE buffer'.dirty = buffer.dirty /\ status_msg' = MsgNoFilename

C7_Write == [][C7_WriteStep]_vars

\* C8: a step that executes :wq [name] rebinds and saves as :w does and
\* returns continue=false exactly when the save succeeded or the buffer was
\* not dirty; with no filename and a dirty buffer it returns continue=true
\* with the no-filename message.
C8_WriteQuitStep ==
  Executed(<<":", "w", "q">>)' =>
    /\ buffer'.filename =
         IF Len(executed') > 1 THEN Some(executed'[2]) ELSE buffer.filename
    /\ buffer'.rope = buffer.rope
    /\ ret' = "false" <=> (buffer'.filename # None \/ ~buffer.dirty)
    /\ buffer'.filename # None =>
         ~buffer'.dirty /\ status_msg' = MsgSaved(unwrap(buffer'.filename))
    /\ buffer'.filename = None /\ buffer.dirty =>
         ret' = "true" /\ status_msg' = MsgNoFilename /\ buffer'.dirty

C8_WriteQuit == [][C8_WriteQuitStep]_vars

\* C9: no key returns an error to Editor::run.  A save that the file store
\* fails is the one place an error can come from, and the claim has the key
\* complete with continue=true there, the session going on in Normal mode.
C9_SaveErrorNotFatal == ret # "err"

KnownCommands ==
  {<<":", "q">>, <<":", "q", "!">>, <<":", "w">>, <<":", "w", "q">>}

\* C10: a step that executes a command whose first token is none of :q,
\* :q!, :w, :wq returns continue=true, reports the unknown command and
\* changes neither the buffer (content, dirty flag, filename) nor cx, cy
\* or row_offset.
C10_UnknownStep ==
  executed' # <<>> /\ executed'[1] \notin KnownCommands =>
    /\ ret' = "true"
    /\ status_msg' = MsgUnknown(command_to_execute')
    /\ buffer' = buffer
    /\ cx' = cx
    /\ cy' = cy
    /\ row_offset' = row_offset

C10_Unknown == [][C10_UnknownStep]_vars

\* C10 witness: the bare ":" was executed on a dirty buffer with the cursor
\* away from the origin, and reported.
C10_Witness ==
  /\ command_to_execute = <<":">>
  /\ status_msg = MsgUnknown(<<":">>)
  /\ ret = "true"
  /\ buffer.dirty
  /\ cx > 0
  /\ row_offset > 0

\* The cursor and the viewport of editor e.
Position(e) == <<e.cx, e.cy, e.row_offset>>

\* h, j, k, l, the four arrows, Ctrl-D and Ctrl-U.
MovementEvents ==
  {Char(c, "NONE") : c \in {"h", "j", "k", "l"}}
    \cup {Key(k) : k \in {"Left", "Right", "Up", "Down"}}
    \cup {Char(c, "CONTROL") : c \in {"d", "u"}}

\* C11: every movement key moves the cursor and the viewport in Visual mode
\* as it does in Normal mode from the same buffer, cx, cy, row_offset and
\* screen_rows.
C11_MovementSame ==
  mode.tag = "Visual" =>
    \A event \in MovementEvents :
      Position(process_visual_keypress(Ed, event)) =
        Position(process_normal_keypress([Ed EXCEPT !.mode = Normal], event))

\* (column, row) point p is at or before point q, by row and then by column.
LexLeq(p, q) == p[2] < q[2] \/ (p[2] = q[2] /\ p[1] <= q[1])

\* The range of the current state: none outside Visual mode, and in Visual
\* mode the anchor and the live cursor, the earlier one first.
C12_RangeOrdered ==
  LET live == <<cx, cy + row_offset>>
      range == get_selection_range(Ed)
  IN  IF mode.tag = "Visual"
      THEN /\ range # None
           /\ {unwrap(range)[1], unwrap(range)[2]} = {mode.selection_start, live}
           /\ LexLeq(unwrap(range)[1], unwrap(range)[2])
           /\ LexLeq(live, mode.selection_start) =>
                unwrap(range) = <<live, mode.selection_start>>
           /\ LexLeq(mode.selection_start, live) =>
                unwrap(range) = <<mode.selection_start, live>>
      ELSE range = None

\* The anchor is the cursor's position when v is pressed, and no key pressed
\* in Visual mode moves it.
C12_AnchorStep ==
  /\ mode.tag = "Normal" /\ mode'.tag = "Visual" =>
       mode'.selection_start = <<cx, cy + row_offset>>
  /\ mode.tag = "Visual" /\ mode'.tag = "Visual" =>
       mode'.selection_start = mode.selection_start

\* C12: in Visual mode the selection range is the anchor (the cx and absolute
\* row captured when v was pressed) and the live cursor (cx, cy + row_offset),
\* ordered by (row, column) so that start <= end, swapped when the live cursor
\* is before the anchor; in Normal, Insert and Command mode it is none.
C12_SelectionRange ==
  /\ []C12_RangeOrdered
  /\ [][C12_AnchorStep]_vars

\* C12 witness: in Visual mode the cursor has moved left of the anchor on the
\* anchor's row, so the range is the swapped pair.
C12_Witness ==
  /\ mode.tag = "Visual"
  /\ ret = "true"
  /\ cy + row_offset = mode.selection_start[2]
  /\ cx < mode.selection_start[1]
  /\ get_selection_range(Ed) = Some(<<(<<cx, cy + row_offset>>), mode.selection_start>>)

\* C13: in every Normal-mode state Escape leaves the mode, the buffer (content
\* and dirty flag), cx, cy and row_offset as they are and returns
\* continue=true, and a second Escape leaves the whole state, the status
\* message included, as the first one left it.
C13_EscapeIdempotent ==
  mode.tag = "Normal" /\ Running =>
    LET once == process_normal_keypress(Ed, Key("Esc"))
        twice == process_normal_keypress(
                   [once EXCEPT !.ret = "true", !.command_to_execute = <<>>],
                   Key("Esc"))
    IN  /\ once.mode = mode
        /\ once.buffer = buffer
        /\ Position(once) = <<cx, cy, row_offset>>
        /\ once.ret = "true"
        /\ twice = once

\* C13 witness: a Normal-mode state a key has led to, the buffer dirty, the
\* cursor off column 0 and the screen scrolled, where Escape has something
\* to leave alone.
C13_Witness ==
  /\ mode.tag = "Normal"
  /\ ret = "true"
  /\ status_msg = NoMsg
  /\ buffer.dirty
  /\ cx > 0
  /\ row_offset > 0
  /\ process_normal_keypress(Ed, Key("Esc")) = Ed

\* C14: in Insert mode, Backspace with the cursor at absolute row 0 and
\* cx = 0 changes nothing: the buffer (content, line count, dirty flag), cx,
\* cy, row_offset and the mode are as before, and the key returns
\* continue=true.
C14_BackspaceAtOrigin ==
  mode.tag = "Insert" /\ Running /\ cx = 0 /\ cy + row_offset = 0 =>
    LET after == process_insert_keypress(Ed, Key("Backspace"))
    IN  /\ after.buffer = buffer
        /\ len_lines(after.buffer.rope) = lineCount
        /\ Position(after) = <<cx, cy, row_offset>>
        /\ after.mode = mode
        /\ after.ret = "true"

\* C14 witness: Backspace has been handled in Insert mode with the cursor at
\* the origin of a dirty buffer of several lines, and has left it there.
C14_Witness ==
  /\ mode.tag = "Insert"
  /\ ret = "true"
  /\ status_msg = NoMsg
  /\ cx = 0
  /\ cy + row_offset = 0
  /\ buffer.dirty
  /\ lineCount > 1
  /\ process_insert_keypress(Ed, Key("Backspace")) = Ed

\* ':' pressed in Normal mode leaves the status message as it is.
C15_EntryStep ==
  mode.tag = "Normal" /\ mode'.tag = "Command" => status_msg' = status_msg

\* The message a command executed by Enter has set is the status message of
\* the Normal-mode state the key leads to.
C15_ExitStep ==
  command_to_execute' # <<>> /\ ret' = "true" =>
    /\ mode'.tag = "Normal"
    /\ \E io \in IoOutcomes :
         status_msg' =
           execute_command([Ed EXCEPT !.mode = Normal],
                           command_to_execute', io).status_msg

\* C15: the status message is preserved across Command-mode entry and exit:
\* ':' in Normal mode leaves the current message unchanged, and the message
\* set by executing a command with Enter is still the status message when the
\* editor is back in Normal mode after that key.
C15_StatusPreserved == [][C15_EntryStep /\ C15_ExitStep]_vars

\* Every key handled in Normal, Insert or Visual mode, and every key but
\* Enter in Command mode, returns continue=true: in each mode some key keeps
\* the session going.
C16_KeysContinue ==
  Running =>
    /\ mode.tag = "Normal" =>
         \A event \in NormalEvents :
           process_normal_keypress(Ed, event).ret = "true"
    /\ mode.tag = "Insert" =>
         \A event \in InsertEvents :
           process_insert_keypress(Ed, event).ret = "true"
    /\ mode.tag = "Visual" =>
         \A event \in NormalEvents :
           process_visual_keypress(Ed, event).ret = "true"
    /\ mode.tag = "Command" =>
         \A event \in CommandEvents \ {Key("Enter")}, io \in IoOutcomes :
           process_command_keypress(Ed, event, io).ret = "true"

\* A key after which Editor::run stops reading keys is Enter in Command
\* mode, and it has returned continue=false.
C16_ExitStep ==
  ret' # "true" =>
    /\ ret' = "false"
    /\ mode.tag = "Command"
    /\ command_to_execute' # <<>>

\* C16: exit is signalled only through the continue flag the key handlers
\* return, and only by Enter in Command mode: every key handled in Normal,
\* Insert or Visual mode and every key but Enter in Command mode returns
\* continue=true, and no mode is a terminal state.
C16_ExitOnlyByFlag ==
  /\ []C16_KeysContinue
  /\ [][C16_ExitStep]_vars

\* C17: with screen_rows >= 1 no sequence of keys makes the editing core
\* raise: no key handled has panicked (an unsigned subtraction below zero in
\* Ctrl-D, Ctrl-U or the Backspace join, a buffer access at a row or a
\* character offset that does not exist), and none of the keys that can be
\* pressed next does.
C17_NeverRaises ==
  /\ ret # "panic"
  /\ Running =>
       /\ mode.tag = "Normal" =>
            \A event \in NormalEvents :
              process_normal_keypress(Ed, event).ret # "panic"
       /\ mode.tag = "Insert" =>
            \A event \in InsertEvents :
              process_insert_keypress(Ed, event).ret # "panic"
       /\ mode.tag = "Visual" =>
            \A event \in NormalEvents :
              process_visual_keypress(Ed, event).ret # "panic"
       /\ mode.tag = "Command" =>
            \A event \in CommandEvents, io \in IoOutcomes :
              process_command_keypress(Ed, event, io).ret # "panic"

\* C17 witness: after a Backspace join in Insert mode the cursor is beyond
\* the end of its line, on a scrolled screen: the next character typed is
\* inserted at the clamped column.
C17_Witness ==
  /\ mode.tag = "Insert"
  /\ ret = "true"
  /\ screen_rows >= 1
  /\ cx > line_len_chars(buffer.rope, cy + row_offset)
  /\ row_offset > 0
  /\ process_insert_keypress(Ed, Char("a", "NONE")).ret = "true"

\* C18: in Normal mode Ctrl-D sets row_offset to
\* min(old + screen_rows div 2, lineCount - 1) and Ctrl-U sets it to
\* max(old - screen_rows div 2, 0); with delta the change of row_offset, cy
\* becomes max(cy - delta, 0) for Ctrl-D and min(cy + delta, screen_rows - 1)
\* for Ctrl-U, so the absolute row cy + row_offset is unchanged whenever the
\* shifted cy is within 0 .. screen_rows - 1, and the cursor never ends
\* beyond the last line.
C18_HalfPage ==
  mode.tag = "Normal" /\ Running =>
    LET half == screen_rows \div 2
        down == process_normal_keypress(Ed, Char("d", "CONTROL"))
        up == process_normal_keypress(Ed, Char("u", "CONTROL"))
        delta_down == down.row_offset - row_offset
        delta_up == row_offset - up.row_offset
    IN  /\ down.row_offset = Min(row_offset + half, lineCount - 1)
        /\ down.cy = Max(cy - delta_down, 0)
        /\ cy - delta_down >= 0 => file_row(down) = cy + row_offset
        /\ file_row(down) <= lineCount - 1
        /\ up.row_offset = Max(row_offset - half, 0)
        /\ up.cy = Min(cy + delta_up, screen_rows - 1)
        /\ cy + delta_up <= screen_rows - 1 => file_row(up) = cy + row_offset
        /\ file_row(up) <= lineCount - 1

\* C18 witness: in Normal mode the screen is scrolled to the last line, where
\* Ctrl-D is stopped by the end of the document and Ctrl-U scrolls half a
\* page back with the cursor staying on its line.
C18_Witness ==
  /\ mode.tag = "Normal"
  /\ ret = "true"
  /\ screen_rows >= 2
  /\ row_offset = lineCount - 1
  /\ row_offset > 0
  /\ process_normal_keypress(Ed, Char("d", "CONTROL")).row_offset = row_offset
  /\ process_normal_keypress(Ed, Char("u", "CONTROL")).row_offset < row_offset
  /\ process_normal_keypress(Ed, Char("u", "CONTROL")).cy > cy

\* The keys of a vertical step.
DownEvents == {Char("j", "NONE"), Key("Down")}

UpEvents == {Char("k", "NONE"), Key("Up")}

\* The handler of the current mode, Normal or Visual, applied to a key.
VerticalStep(event) ==
  IF mode.tag = "Normal" THEN process_normal_keypress(Ed, event)
  ELSE process_visual_keypress(Ed, event)

\* C19: a vertical step (j / Down or k / Up, in Normal or Visual mode) moves
\* the cursor's absolute row by exactly one, or by zero at the last / first
\* line of the document, and changes exactly one of cy and row_offset to do
\* so: row_offset (by one, cy unchanged) when cy is at the screen boundary,
\* cy = screen_rows - 1 for down and cy = 0 for up, and only cy otherwise.
C19_VerticalStep ==
  mode.tag \in {"Normal", "Visual"} /\ Running =>
    /\ \A event \in DownEvents :
         LET after == VerticalStep(event)
         IN  IF cy + row_offset < lineCount - 1
             THEN /\ file_row(after) = cy + row_offset + 1
                  /\ IF cy = screen_rows - 1
                     THEN after.cy = cy /\ after.row_offset = row_offset + 1
                     ELSE after.cy = cy + 1 /\ after.row_offset = row_offset
             ELSE after.cy = cy /\ after.row_offset = row_offset
    /\ \A event \in UpEvents :
         LET after == VerticalStep(event)
         IN  IF cy + row_offset > 0
             THEN /\ file_row(after) = cy + row_offset - 1
                  /\ IF cy = 0
                     THEN after.cy = cy /\ after.row_offset = row_offset - 1
                     ELSE after.cy = cy - 1 /\ after.row_offset = row_offset
             ELSE after.cy = cy /\ after.row_offset = row_offset

\* C19 witness: in Visual mode the cursor is on the bottom row of a scrolled
\* screen of two rows with a line below it: j scrolls by one line, k moves
\* the cursor up the screen.
C19_Witness ==
  /\ mode.tag = "Visual"
  /\ ret = "true"
  /\ screen_rows = 2
  /\ cy = screen_rows - 1
  /\ row_offset > 0
  /\ cy + row_offset < lineCount - 1
  /\ VerticalStep(Key("Down")).row_offset = row_offset + 1
  /\ VerticalStep(Key("Up")).cy = cy - 1

\* The text of line `line` of rope r, its line break left out.
lineText(r, line) ==
  SubSeq(r, line_to_char(r, line) + 1, line_to_char(r, line) + lineLength(r, line))

\* The effect of a Backspace join on the buffer and on the cursor's row:
\* lines row - 1 and row of the buffer become one line, their concatenation,
\* the other lines are unchanged, the buffer is dirty and the cursor is on
\* absolute row row - 1, by cy - 1, or by row_offset - 1 when cy = 0.
C20_Joined(after) ==
  LET row == cy + row_offset
      joined == after.buffer.rope
  IN  /\ len_lines(joined) = lineCount - 1
      /\ \A i \in 0..(lineCount - 2) :
           lineText(joined, i) =
             IF i < row - 1 THEN lineText(buffer.rope, i)
             ELSE IF i = row - 1
                  THEN lineText(buffer.rope, row - 1) \o lineText(buffer.rope, row)
                  ELSE lineText(buffer.rope, i + 1)
      /\ after.buffer.dirty
      /\ file_row(after) = row - 1
      /\ IF cy > 0
         THEN after.cy = cy - 1 /\ after.row_offset = row_offset
         ELSE after.cy = cy /\ after.row_offset = row_offset - 1

\* C20: in Insert mode, Backspace with cx = 0 on absolute row r > 0 joins
\* lines r - 1 and r (one line less, the other lines unchanged), marks the
\* buffer dirty, moves the cursor to absolute row r - 1 and sets cx to the
\* length the text of line r - 1 had before the join.
C20_BackspaceJoin ==
  mode.tag = "Insert" /\ Running /\ cx = 0 /\ cy + row_offset > 0 =>
    LET after == process_insert_keypress(Ed, Key("Backspace"))
    IN  /\ C20_Joined(after)
        /\ after.cx = lineLength(buffer.rope, cy + row_offset - 1)

\* The first n elements of s, all of s when it has fewer.
Take(s, n) == SubSeq(s, 1, Min(n, Len(s)))

\* s without its first n elements.
Drop(s, n) == SubSeq(s, Min(n, Len(s)) + 1, Len(s))

\* The lines of rope r, their line breaks left out.
lines(r) == [i \in 1..len_lines(r) |-> lineText(r, i - 1)]

\* C21: in Insert mode, Enter with the cursor at (cx, absolute row r) splits
\* line r at column cx: the first cx characters stay on row r, the rest
\* become the new row r + 1, the other lines are unchanged and lineCount
\* grows by one; the buffer is dirty and the cursor is on column 0 of
\* absolute row r + 1, by cy + 1, or by row_offset + 1 with cy unchanged when
\* cy = screen_rows - 1.
C21_EnterSplits ==
  mode.tag = "Insert" /\ Running =>
    LET row == cy + row_offset
        before == lines(buffer.rope)
        after == process_insert_keypress(Ed, Key("Enter"))
    IN  /\ lines(after.buffer.rope) =
             SubSeq(before, 1, row)
               \o <<Take(before[row + 1], cx), Drop(before[row + 1], cx)>>
               \o SubSeq(before, row + 2, Len(before))
        /\ len_lines(after.buffer.rope) = lineCount + 1
        /\ after.buffer.dirty
        /\ after.cx = 0
        /\ file_row(after) = row + 1
        /\ IF cy = screen_rows - 1
           THEN after.cy = cy /\ after.row_offset = row_offset + 1
           ELSE after.cy = cy + 1 /\ after.row_offset = row_offset

\* C21 witness: Enter has split a line in its middle, in Insert mode on the
\* bottom row of the screen: text was left on the row above, the rest is on
\* the cursor's row, and the screen has scrolled.
C21_Witness ==
  /\ mode.tag = "Insert"
  /\ ret = "true"
  /\ buffer.dirty
  /\ cx = 0
  /\ row_offset > 0
  /\ cy = screen_rows - 1
  /\ lineLength(buffer.rope, cy + row_offset - 1) > 0
  /\ lineLength(buffer.rope, cy + row_offset) > 0

\* C22: in Insert mode, typing a character c with the cursor at (cx, absolute
\* row r) inserts c into the text of line r right before column cx: line r
\* is one character longer, the other lines and lineCount are unchanged, cx
\* is one larger, cy and row_offset are unchanged and the buffer is dirty.
C22_CharInserted ==
  mode.tag = "Insert" /\ Running =>
    \A c \in TextChars :
      LET row == cy + row_offset
          before == lines(buffer.rope)
          after == process_insert_keypress(Ed, Char(c, "NONE"))
      IN  /\ lines(after.buffer.rope) =
               [before EXCEPT ![row + 1] = Take(@, cx) \o <<c>> \o Drop(@, cx)]
          /\ after.cx = cx + 1
          /\ after.cy = cy
          /\ after.row_offset = row_offset
          /\ after.buffer.dirty

\* C23: in Insert mode, Backspace with cx > 0 removes the character at column
\* cx - 1 of the cursor's line: that line is one character shorter, the other
\* lines and lineCount are unchanged, cx is one smaller, cy and row_offset
\* are unchanged and the buffer is dirty.
C23_CharRemoved ==
  mode.tag = "Insert" /\ Running /\ cx > 0 =>
    LET row == cy + row_offset
        before == lines(buffer.rope)
        after == process_insert_keypress(Ed, Key("Backspace"))
    IN  /\ lines(after.buffer.rope) =
             [before EXCEPT ![row + 1] = Take(@, cx - 1) \o Drop(@, cx)]
        /\ Len(lines(after.buffer.rope)[row + 1]) = Len(before[row + 1]) - 1
        /\ after.cx = cx - 1
        /\ after.cy = cy
        /\ after.row_offset = row_offset
        /\ after.buffer.dirty

\* C24: Escape in Insert mode switches to Normal mode and applies the Normal
\* clamp: the new cx is min(cx, max(lineLength - 1, 0)) for the cursor's
\* line, so cx is unchanged or one smaller; the buffer (content and dirty
\* flag), cy and row_offset are unchanged.
C24_EscapeClamps ==
  mode.tag = "Insert" /\ Running =>
    LET after == process_insert_keypress(Ed, Key("Esc"))
    IN  /\ after.mode = Normal
        /\ after.cx = Min(cx, Max(lineLength(buffer.rope, cy + row_offset) - 1, 0))
        /\ after.cx \in {cx, cx - 1}
        /\ after.buffer = buffer
        /\ after.cy = cy
        /\ after.row_offset = row_offset

\* C25: the editor never signals exit with unsaved changes unless forced:
\* when a key has returned continue=false, the command executed is :q! or
\* the buffer is not dirty.
C25_NoUnsavedExit ==
  ret = "false" => Executed(<<":", "q", "!">>) \/ ~buffer.dirty

\* C25 witness: :wq with a file name has saved a buffer that had no file and
\* returned continue=false, the buffer not dirty any more.
C25_Witness ==
  /\ ret = "false"
  /\ Executed(<<":", "w", "q">>)
  /\ Len(executed) > 1
  /\ buffer.filename = Some(executed[2])
  /\ buffer.rope # <<>>
  /\ ~buffer.dirty
  /\ status_msg = MsgSaved(executed[2])

\* The step has executed :w or :wq and the save has succeeded: a filename
\* was bound and the file store has not failed.
SuccessfulSave ==
  /\ Executed(<<":", "w">>) \/ Executed(<<":", "w", "q">>)
  /\ buffer.filename # None
  /\ ret \in {"true", "false"}

\* The dirty flag over one key: a key that changes the content leaves the
\* buffer dirty, only a successful save takes a dirty buffer to a clean one,
\* and a successful save leaves the buffer clean with the content it had.
C26_DirtyStep ==
  /\ buffer'.rope # buffer.rope => buffer'.dirty
  /\ buffer.dirty /\ ~buffer'.dirty => SuccessfulSave'
  /\ SuccessfulSave' => ~buffer'.dirty /\ buffer'.rope = buffer.rope

\* C26: the dirty flag is sound.  The buffer is not dirty after the load,
\* every key that changes the content sets dirty, and dirty is reset only by
\* a successful save, which keeps the content: so in every state where dirty
\* is false no key since the most recent load or successful save has changed
\* the content, which is the content loaded or saved then.
C26_DirtySound ==
  /\ ~buffer.dirty
  /\ [][C26_DirtyStep]_vars

\* C26 witness: :w with a file name has saved a buffer that holds text; the
\* buffer is not dirty and the session goes on.
C26_Witness ==
  /\ Executed(<<":", "w">>)
  /\ Len(executed) > 1
  /\ buffer.filename = Some(executed[2])
  /\ ret = "true"
  /\ status_msg = MsgSaved(executed[2])
  /\ buffer.rope # <<>>
  /\ ~buffer.dirty

====
